---- MODULE Spec2Model ----
(***************************************************************************)
(* Model of examples/o1_web_crawler/o1_web_crawler.py: main() arms a       *)
(* one-shot alarm, reads the inputs, ranks candidate pages                 *)
(* (find_relevant_page_via_map), then find_objective_in_top_pages loads    *)
(* the result document, and for every link scrapes it, asks the model for  *)
(* vendors, parses the answer, extends all_vendors and rewrites the        *)
(* document.                                                               *)
(*                                                                         *)
(* A Record is an opaque JSON object.  JSON values are abstracted by the   *)
(* properties the code inspects: their kind (isinstance), whether a dict   *)
(* has the 'vendors' key, whether that value can be iterated, and its      *)
(* elements.  The result document at run start is absent, not valid JSON,  *)
(* or a JSON object (with or without a 'vendors' array).                   *)
(*                                                                         *)
(* SIGALRM is delivered while the program is inside input(), a network     *)
(* call, a file operation, or at the loop header between two pages.        *)
(***************************************************************************)
EXTENDS Integers, Sequences, FiniteSets, TLC

\* Bounds of the model.
MaxPages == 2

Records == {"A", "B"}

SeqsUpTo(S, n) == UNION {[1..k -> S] : k \in 0..n}

Links == 1..MaxPages

\* What map_url may return: n distinct links (n <= MaxPages), in any order.
CandidateSeqs ==
  {s \in SeqsUpTo(Links, MaxPages) : \A i \in 1..Len(s) : \E j \in 1..Len(s) : s[j] = i}

\* What a page's response may list: up to one entry per record, in any order.
RecordSeqs ==
  {s \in SeqsUpTo(Records, Cardinality(Records)) :
     \A i, j \in 1..Len(s) : i # j => s[i] # s[j]}

(***************************************************************************)
(* JSON values and texts.                                                  *)
(***************************************************************************)
JList(s) == [kind |-> "list", has |-> FALSE, iter |-> FALSE, items |-> s]
JDict(has, iter, s) == [kind |-> "dict", has |-> has, iter |-> iter, items |-> s]
JString == [kind |-> "string", has |-> FALSE, iter |-> FALSE, items |-> <<>>]
\* a number, true, false or null: no len(), not iterable
JScalar == [kind |-> "scalar", has |-> FALSE, iter |-> FALSE, items |-> <<>>]

JsonValues ==
  {JString, JScalar, JDict(FALSE, FALSE, <<>>), JDict(TRUE, FALSE, <<>>)}
    \cup {JList(s) : s \in RecordSeqs}
    \cup {JDict(TRUE, TRUE, s) : s \in RecordSeqs}

Text(v) == [valid |-> TRUE, value |-> v]
BadText == [valid |-> FALSE, value |-> JScalar]

\* What the model completion may answer for a page.
ResponseTexts == {BadText} \cup {Text(v) : v \in JsonValues}

\* Mutant: a parser that turns an unparseable text into an empty array.
json_loads_lenient(text) ==
  [err |-> "none", value |-> IF text.valid THEN text.value ELSE JList(<<>>)]

\* json.loads: the parsed value, or JSONDecodeError.
json_loads(text) ==
  IF text.valid THEN [err |-> "none", value |-> text.value]
  ELSE [err |-> "JSONDecodeError", value |-> JScalar]

\* len(vendors) raises TypeError for a number, a boolean or null.
HasLen(v) == v.kind \in {"list", "dict", "string"}

(***************************************************************************)
(* The result document on disk.                                            *)
(***************************************************************************)
Absent == [kind |-> "absent", has |-> FALSE, vendors |-> <<>>]
\* present, not valid JSON, not written by this run
Corrupt == [kind |-> "corrupt", has |-> FALSE, vendors |-> <<>>]
\* opened with mode 'w' by this run and not (fully) written: empty or partial
Truncated == [kind |-> "truncated", has |-> FALSE, vendors |-> <<>>]
Doc(has, s) == [kind |-> "doc", has |-> has, vendors |-> s]

\* vendors arrays a document left by an earlier run may hold
ExistingSeqs == {<<>>, <<"A">>, <<"B", "A">>}

InitialFiles ==
  {Absent, Corrupt, Doc(FALSE, <<>>)} \cup {Doc(TRUE, s) : s \in ExistingSeqs}

\* json.dump({"vendors": all_vendors}, f, indent=2), completed.
Dump(vendors) == Doc(TRUE, vendors)

\* Mutant: the existing document is ignored.
LoadFresh(f) == <<>>

\* Lines 74-84: all_vendors after loading the existing document.
LoadVendors(f) ==
  IF f.kind = "doc" /\ f.has THEN f.vendors ELSE <<>>

\* The records of a response: the elements of a top-level array, or of the
\* array under 'vendors' of a top-level object; none for any other text.
Emitted(text) ==
  IF text.valid /\ (text.value.kind = "list" \/
                    (text.value.kind = "dict" /\ text.value.has /\ text.value.iter))
    THEN text.value.items
    ELSE <<>>

\* Mutant: new records are put in front of the old ones.
ExtendFront(vendors, items) == items \o vendors

\* list.extend
Extend(vendors, items) == vendors \o items

\* Mutant: only a top-level array is accepted.
ParseAndExtendListOnly(vendors, text) ==
  LET parsed == json_loads(text)
      v == parsed.value
  IN  IF parsed.err # "none"
        THEN [err |-> "JSONDecodeError", vendors |-> vendors]
      ELSE IF v.kind = "list"
        THEN [err |-> "none", vendors |-> Extend(vendors, v.items)]
      ELSE IF HasLen(v)
        THEN [err |-> "none", vendors |-> vendors]
      ELSE [err |-> "TypeError", vendors |-> vendors]

\* Mutant: the save is skipped when the page gave no record.
ParseAndExtendSkipEmpty(vendors, text) ==
  LET parsed == json_loads(text)
      v == parsed.value
  IN  IF parsed.err # "none"
        THEN [err |-> "JSONDecodeError", vendors |-> vendors]
      ELSE IF (v.kind = "list" \/ (v.kind = "dict" /\ v.has /\ v.iter))
              /\ v.items # <<>>
        THEN [err |-> "none", vendors |-> Extend(vendors, v.items)]
      ELSE [err |-> "TypeError", vendors |-> vendors]

\* Mutant: an object without 'vendors' is taken as one record.
ParseAndExtendAppendOther(vendors, text) ==
  LET parsed == json_loads(text)
      v == parsed.value
  IN  IF parsed.err # "none"
        THEN [err |-> "JSONDecodeError", vendors |-> vendors]
      ELSE IF v.kind = "list"
        THEN [err |-> "none", vendors |-> Extend(vendors, v.items)]
      ELSE IF v.kind = "dict" /\ v.has
        THEN IF v.iter
               THEN [err |-> "none", vendors |-> Extend(vendors, v.items)]
               ELSE [err |-> "TypeError", vendors |-> vendors]
      ELSE IF v.kind = "dict"
        THEN [err |-> "none", vendors |-> Append(vendors, "A")]
      ELSE IF HasLen(v)
        THEN [err |-> "none", vendors |-> vendors]
      ELSE [err |-> "TypeError", vendors |-> vendors]

(***************************************************************************)
(* Lines 118-124: parse the response and extend all_vendors.  err is the   *)
(* exception raised before the save is reached, if any.                    *)
(***************************************************************************)
ParseAndExtend(vendors, text) ==
  LET parsed == json_loads(text)
      v == parsed.value
  IN  IF parsed.err # "none"
        THEN [err |-> "JSONDecodeError", vendors |-> vendors]
      ELSE IF v.kind = "list"
        THEN [err |-> "none", vendors |-> Extend(vendors, v.items)]
      ELSE IF v.kind = "dict" /\ v.has
        THEN IF v.iter
               THEN [err |-> "none", vendors |-> Extend(vendors, v.items)]
               ELSE [err |-> "TypeError", vendors |-> vendors]
      ELSE IF HasLen(v)
        THEN [err |-> "none", vendors |-> vendors]
      ELSE [err |-> "TypeError", vendors |-> vendors]

VARIABLES
  pc,           \* position of the single thread of control
  alarm,        \* "armed" (pending), "spent" (went off) or "off" (alarm(0))
  map_website,  \* what find_relevant_page_via_map returned
  idx,          \* position of the for loop in map_website
  all_vendors,  \* the in-memory ResultSet
  file,         \* content of o1_web_crawler_results.json
  cur,          \* the page being processed, or the last one processed
  attempted,    \* links whose processing was started, in order
  emitted,      \* records the model emitted so far, in accepted shapes, in order
  prev_saved,   \* vendors persisted by the successful save before the last
  last_saved,   \* vendors persisted by the last successful save (or loaded)
  nwrites,      \* number of times the document was opened for writing
  fired,        \* snapshot taken when the timeout handler ran
  failed,       \* links whose processing ended in an exception
  yield_saved,  \* did the save of the last record-yielding page succeed
  file0,        \* the document at run start
  loaded        \* all_vendors right after loading

vars == <<pc, alarm, map_website, idx, all_vendors, file, cur, attempted,
          emitted, prev_saved, last_saved, nwrites, fired, failed, yield_saved,
          file0, loaded>>

\* what only Load, the model call and the save steps change
store == <<all_vendors, file, emitted, prev_saved, last_saved, nwrites,
           yield_saved, file0, loaded>>

Terminal == {"Done", "FailedNoPages", "FailedTimeout", "Crashed"}

NoPage ==
  [link |-> 0, got |-> FALSE, text |-> BadText, outcome |-> "none",
   tried |-> FALSE, wrote |-> FALSE, v0 |-> <<>>, f0 |-> Absent,
   steps |-> <<>>]

NotFired == [pc |-> "none", started |-> 0, nwrites |-> 0, file |-> Absent]

Unset == [state |-> "unset", links |-> <<>>]
None == [state |-> "none", links |-> <<>>]
Ranked(s) == [state |-> "list", links |-> s]

\* Lines 142-143: the handler is installed and the alarm armed.
Init ==
  /\ pc = "input"
  /\ alarm = "armed"
  /\ map_website = Unset
  /\ idx = 1
  /\ all_vendors = <<>>
  /\ file \in InitialFiles
  /\ cur = NoPage
  /\ attempted = <<>>
  /\ emitted = <<>>
  /\ prev_saved = file.vendors
  /\ last_saved = file.vendors
  /\ nwrites = 0
  /\ fired = NotFired
  /\ failed = {}
  /\ yield_saved = "none"
  /\ file0 = file
  /\ loaded = <<>>

\* Mutant: the driver ends without cancelling the alarm.
FinishKeepAlarm(state) ==
  /\ pc' = state
  /\ alarm' = alarm

\* Lines 165-168 and the normal exits: the finally clause cancels the alarm.
Finish(state) ==
  /\ pc' = state
  /\ alarm' = "off"

\* Lines 147-148: both input() calls return.
Input ==
  /\ pc = "input"
  /\ pc' = "rank_llm"
  /\ UNCHANGED <<alarm, map_website, idx, cur, attempted, fired, failed, store>>

\* input() raises (EOFError): not caught by main, the finally clause runs.
InputFail ==
  /\ pc = "input"
  /\ Finish("Crashed")
  /\ UNCHANGED <<map_website, idx, cur, attempted, fired, failed, store>>

\* Mutant: the driver goes on to the page loop whatever the ranker returned.
NoPagesProceed(m) ==
  /\ map_website' = m
  /\ pc' = "load"
  /\ UNCHANGED <<alarm, idx, cur, attempted, failed, store>>

\* Lines 153-164 for a falsy map_website (None or []): the no-pages report.
NoPages(m) ==
  /\ map_website' = m
  /\ Finish("FailedNoPages")
  /\ UNCHANGED <<idx, cur, attempted, failed, store>>

\* Lines 45-60: the search-parameter completion returns.
RankLlm ==
  /\ pc = "rank_llm"
  /\ pc' = "rank_map"
  /\ UNCHANGED <<alarm, map_website, idx, cur, attempted, fired, failed, store>>

\* Lines 68-70: the completion raises; the ranker returns None.
RankLlmFail ==
  /\ pc = "rank_llm"
  /\ NoPages(None)
  /\ UNCHANGED fired

\* Lines 64-67 and 154-157: map_url returns the candidate sequence.
RankMap ==
  /\ pc = "rank_map"
  /\ \E s \in CandidateSeqs :
       IF s = <<>>
         THEN NoPages(Ranked(s))
         ELSE /\ map_website' = Ranked(s)
              /\ pc' = "load"
              /\ UNCHANGED <<alarm, idx, cur, attempted, failed, store>>
  /\ UNCHANGED fired

\* Lines 68-70: map_url raises; the ranker returns None.
RankMapFail ==
  /\ pc = "rank_map"
  /\ NoPages(None)
  /\ UNCHANGED fired

\* Mutant: a document that does not parse is replaced by an empty one.
LoadRepair ==
  /\ pc = "load"
  /\ all_vendors' = LoadVendors(file)
  /\ loaded' = all_vendors'
  /\ file' = IF file.kind = "corrupt" THEN Dump(<<>>) ELSE file
  /\ idx' = 1
  /\ pc' = "loop"
  /\ UNCHANGED <<alarm, map_website, cur, attempted, emitted, prev_saved,
                 last_saved, nwrites, fired, failed, yield_saved, file0>>

\* Lines 74-84: load the existing document.
Load ==
  /\ pc = "load"
  /\ all_vendors' = LoadVendors(file)
  /\ loaded' = all_vendors'
  /\ idx' = 1
  /\ pc' = "loop"
  /\ UNCHANGED <<alarm, map_website, file, cur, attempted, emitted, prev_saved,
                 last_saved, nwrites, fired, failed, yield_saved, file0>>

\* Lines 86-89: the loop takes the next link and calls scrape_url.
StartPage ==
  /\ pc = "loop"
  /\ idx <= Len(map_website.links)
  /\ cur' = [link |-> map_website.links[idx], got |-> FALSE, text |-> BadText,
             outcome |-> "pending", tried |-> FALSE, wrote |-> FALSE,
             v0 |-> all_vendors, f0 |-> file, steps |-> <<"fetch">>]
  /\ attempted' = Append(attempted, map_website.links[idx])
  /\ pc' = "fetch"
  /\ UNCHANGED <<alarm, map_website, idx, fired, failed, store>>

\* Mutant: a pass that found no vendor starts over with the first link.
ReturnRescan ==
  /\ pc = "loop"
  /\ idx > Len(map_website.links)
  /\ IF all_vendors = <<>>
       THEN idx' = 1 /\ pc' = "loop" /\ alarm' = alarm
       ELSE Finish("Done")
  /\ UNCHANGED <<map_website, cur, attempted, fired, failed, store>>

\* Lines 137 and 159-168: the loop is exhausted; the driver reports and ends.
Return ==
  /\ pc = "loop"
  /\ idx > Len(map_website.links)
  /\ Finish("Done")
  /\ UNCHANGED <<map_website, idx, cur, attempted, fired, failed, store>>

\* Mutant: a failing page ends the loop.
EndPageAbort(outcome, got, text) ==
  /\ cur' = [cur EXCEPT !.outcome = outcome, !.got = got, !.text = text]
  /\ failed' = IF outcome = "saved" THEN failed ELSE failed \cup {cur.link}
  /\ yield_saved' = IF all_vendors' = cur.v0 THEN yield_saved
                    ELSE IF outcome = "saved" THEN "saved" ELSE "unsaved"
  /\ idx' = IF outcome = "saved" THEN idx + 1 ELSE Len(map_website.links) + 1
  /\ pc' = "loop"

\* Mutant: a page that failed is tried once more.
EndPageRetry(outcome, got, text) ==
  /\ cur' = [cur EXCEPT !.outcome = outcome, !.got = got, !.text = text]
  /\ failed' = IF outcome = "saved" THEN failed ELSE failed \cup {cur.link}
  /\ yield_saved' = IF all_vendors' = cur.v0 THEN yield_saved
                    ELSE IF outcome = "saved" THEN "saved" ELSE "unsaved"
  /\ idx' = IF outcome # "saved" /\ cur.link \notin failed THEN idx ELSE idx + 1
  /\ pc' = "loop"

\* The page ends, normally or in the handler of line 131 or 134; the loop
\* goes on with the next link.
EndPage(outcome, got, text) ==
  /\ cur' = [cur EXCEPT !.outcome = outcome, !.got = got, !.text = text]
  /\ failed' = IF outcome = "saved" THEN failed ELSE failed \cup {cur.link}
  /\ yield_saved' = IF all_vendors' = cur.v0 THEN yield_saved
                    ELSE IF outcome = "saved" THEN "saved" ELSE "unsaved"
  /\ idx' = idx + 1
  /\ pc' = "loop"

\* Lines 89-90: scrape_url returns.
Fetch ==
  /\ pc = "fetch"
  /\ cur' = [cur EXCEPT !.steps = Append(@, "model")]
  /\ pc' = "model"
  /\ UNCHANGED <<alarm, map_website, idx, attempted, fired, failed, store>>

\* Line 89 raises (or the result has no 'markdown'): caught at line 134.
FetchFail ==
  /\ pc = "fetch"
  /\ UNCHANGED <<alarm, map_website, attempted, fired, all_vendors, file,
                 emitted, prev_saved, last_saved, nwrites, file0, loaded>>
  /\ EndPage("fetch_error", FALSE, BadText)

\* Line 106 raises: caught at line 134.
ModelFail ==
  /\ pc = "model"
  /\ UNCHANGED <<alarm, map_website, attempted, fired, all_vendors, file,
                 emitted, prev_saved, last_saved, nwrites, file0, loaded>>
  /\ EndPage("model_error", FALSE, BadText)

\* Lines 106-127: the completion returns; parse, extend, go on to the save.
Model ==
  /\ pc = "model"
  /\ \E text \in ResponseTexts :
       LET r == ParseAndExtend(all_vendors, text)
       IN  /\ all_vendors' = r.vendors
           /\ emitted' = emitted \o Emitted(text)
           /\ IF r.err = "none"
                THEN /\ cur' = [cur EXCEPT !.got = TRUE, !.text = text,
                                           !.tried = TRUE,
                                           !.steps = Append(@, "save")]
                     /\ pc' = "save_open"
                     /\ UNCHANGED <<idx, failed, yield_saved>>
                ELSE EndPage(IF r.err = "JSONDecodeError" THEN "parse_error"
                                                           ELSE "type_error",
                             TRUE, text)
  /\ UNCHANGED <<alarm, map_website, attempted, fired, file, prev_saved,
                 last_saved, nwrites, file0, loaded>>

\* Mutant: the open leaves the old content in place until the write is done.
SaveOpenNoTruncate ==
  /\ pc = "save_open"
  /\ file' = file
  /\ nwrites' = nwrites + 1
  /\ cur' = [cur EXCEPT !.wrote = TRUE]
  /\ pc' = "save_write"
  /\ UNCHANGED <<alarm, map_website, idx, attempted, fired, failed,
                 all_vendors, emitted, prev_saved, last_saved, yield_saved,
                 file0, loaded>>

\* Line 127: open(output_file, 'w') succeeds and truncates the document.
SaveOpen ==
  /\ pc = "save_open"
  /\ file' = Truncated
  /\ nwrites' = nwrites + 1
  /\ cur' = [cur EXCEPT !.wrote = TRUE]
  /\ pc' = "save_write"
  /\ UNCHANGED <<alarm, map_website, idx, attempted, fired, failed,
                 all_vendors, emitted, prev_saved, last_saved, yield_saved,
                 file0, loaded>>

\* Line 127 raises OSError: caught at line 134, the document is untouched.
SaveOpenFail ==
  /\ pc = "save_open"
  /\ UNCHANGED <<alarm, map_website, attempted, fired, all_vendors, file,
                 emitted, prev_saved, last_saved, nwrites, file0, loaded>>
  /\ EndPage("open_error", TRUE, cur.text)

\* Mutant: the save adds this page's records to what was last persisted.
SaveWriteAppendOnly ==
  /\ pc = "save_write"
  /\ file' = Dump(last_saved \o Emitted(cur.text))
  /\ prev_saved' = last_saved
  /\ last_saved' = last_saved \o Emitted(cur.text)
  /\ UNCHANGED <<alarm, map_website, attempted, fired, all_vendors, emitted,
                 nwrites, file0, loaded>>
  /\ EndPage("saved", TRUE, cur.text)

\* Lines 128-129: json.dump and the close complete.
SaveWrite ==
  /\ pc = "save_write"
  /\ file' = Dump(all_vendors)
  /\ prev_saved' = last_saved
  /\ last_saved' = all_vendors
  /\ UNCHANGED <<alarm, map_website, attempted, fired, all_vendors, emitted,
                 nwrites, file0, loaded>>
  /\ EndPage("saved", TRUE, cur.text)

\* Line 128 or the close raises OSError: caught at line 134; the document
\* stays as the open and the partial write left it.
SaveWriteFail ==
  /\ pc = "save_write"
  /\ UNCHANGED <<alarm, map_website, attempted, fired, all_vendors, file,
                 emitted, prev_saved, last_saved, nwrites, file0, loaded>>
  /\ EndPage("write_error", TRUE, cur.text)

(***************************************************************************)
(* Lines 20-21: the alarm goes off and timeout_handler raises TimeoutError *)
(* in the frame that is running.  TimeoutError is an Exception: inside the *)
(* ranker it is caught at line 68, inside a page's try at line 134; only   *)
(* elsewhere does it reach main's handler at line 165.                     *)
(***************************************************************************)
timeout_handler ==
  /\ alarm = "armed"
  /\ pc \notin Terminal
  /\ fired' = [pc |-> pc, started |-> Len(attempted), nwrites |-> nwrites,
               file |-> file]
  /\ UNCHANGED <<attempted, all_vendors, file, emitted, prev_saved, last_saved,
                 nwrites, file0, loaded>>
  /\ IF pc \in {"rank_llm", "rank_map"}
       THEN /\ map_website' = None
            /\ Finish("FailedNoPages")
            /\ UNCHANGED <<idx, cur, failed, yield_saved>>
     ELSE IF pc \in {"fetch", "model", "save_open", "save_write"}
       THEN /\ EndPage("timeout", cur.got, cur.text)
            /\ alarm' = "spent"
            /\ UNCHANGED map_website
     ELSE /\ Finish("FailedTimeout")
          /\ UNCHANGED <<map_website, idx, cur, failed, yield_saved>>

\* The timeout handler has run in this run.
TimedOut == fired.pc # "none"

Next ==
  \/ Input
  \/ InputFail
  \/ RankLlm
  \/ RankLlmFail
  \/ RankMap
  \/ RankMapFail
  \/ Load
  \/ StartPage
  \/ Return
  \/ Fetch
  \/ FetchFail
  \/ Model
  \/ ModelFail
  \/ SaveOpen
  \/ SaveOpenFail
  \/ SaveWrite
  \/ SaveWriteFail
  \/ timeout_handler

Spec == Init /\ [][Next]_vars

\* Every call of the single thread returns or raises, and the interpreter
\* goes on to the next statement: the program does not stop before its end.
FairSpec == Spec /\ WF_vars(Next)

(***************************************************************************)
(* Properties.                                                             *)
(***************************************************************************)
IsPrefix(s, t) == Len(s) <= Len(t) /\ SubSeq(t, 1, Len(s)) = s

\* cur describes a page whose processing is over.
PageEnded == cur.outcome \notin {"none", "pending"}

\* After a page the loop stands at the next candidate: it starts it, or
\* finds the sequence exhausted, or the timeout takes the run at the loop header.
GoesOn ==
  /\ idx = Len(attempted) + 1
  /\ \/ pc = "loop"
     \/ pc = "Done"
     \/ pc = "FailedTimeout" /\ fired.pc = "loop"

\* C1: append-only persistence.  The vendors sequence of the document at run
\* start is a prefix of what every successful save of the run persists, each
\* successful save persists an extension of what the one before persisted,
\* and a well-formed document on disk holds exactly the last such sequence:
\* nothing persisted is ever removed, reordered or rewritten.
AppendOnlyPersistence ==
  /\ IsPrefix(file0.vendors, prev_saved)
  /\ IsPrefix(prev_saved, last_saved)
  /\ file.kind = "doc" => file.vendors = last_saved

\* C1 witness: two successive successful saves, each longer than what was
\* persisted before, on top of a pre-existing document.
AppendOnlyPersistenceWitness ==
  /\ nwrites >= 2
  /\ file.kind = "doc"
  /\ file0.vendors # <<>>
  /\ Len(prev_saved) > Len(file0.vendors)
  /\ Len(last_saved) > Len(prev_saved)

\* C2 (as claimed): once the timeout handler has run, no further page is
\* started, the document is not opened for writing again, and the run ends
\* in Failed(timeout) with the document as it was when the timeout fired.
TimeoutEndsRun ==
  TimedOut =>
    /\ Len(attempted) = fired.started
    /\ nwrites = fired.nwrites
    /\ pc \in Terminal => pc = "FailedTimeout" /\ file = fired.file

SaveIffRecords ==
  PageEnded => (cur.wrote <=> all_vendors # cur.v0)

\* A response the code takes to the save: it parses, and is an array, a
\* string, or an object that has no 'vendors' or an iterable one.
SavedShape(text) ==
  /\ text.valid
  /\ \/ text.value.kind \in {"list", "string"}
     \/ text.value.kind = "dict" /\ (~text.value.has \/ text.value.iter)

\* C4 (amended): the save (line 127) is reached after a page if and only if
\* the model response was received and parsed into such a shape, whether or
\* not it held a record; the document is opened for writing only by a save,
\* and a page that does not reach the save leaves the document as it was.
SaveIffParsed ==
  /\ PageEnded => (cur.tried <=> (cur.got /\ SavedShape(cur.text)))
  /\ cur.wrote => cur.tried
  /\ (cur.outcome # "none" /\ ~cur.tried) => file = cur.f0

\* C4 witness: a page answered with an empty array: no record, yet the
\* document (absent before the run) was written.
SaveIffParsedWitness ==
  /\ PageEnded
  /\ cur.outcome = "saved"
  /\ cur.text = Text(JList(<<>>))
  /\ all_vendors = cur.v0
  /\ cur.f0 = Absent
  /\ file = Doc(TRUE, <<>>)

\* C5: when the ranker returned None or an empty sequence the run is in the
\* no-pages failure state, no page was ever fetched or sent to the model,
\* and the document was neither opened for writing nor changed.
NoPagesNoExtraction ==
  (map_website.state = "none"
     \/ (map_website.state = "list" /\ map_website.links = <<>>)) =>
    /\ pc = "FailedNoPages"
    /\ attempted = <<>>
    /\ cur = NoPage
    /\ emitted = <<>>
    /\ nwrites = 0
    /\ file = file0

\* C5 witness: the ranker returned an empty sequence over an existing
\* document holding a record.
NoPagesNoExtractionWitness ==
  /\ pc = "FailedNoPages"
  /\ map_website = Ranked(<<>>)
  /\ file = Doc(TRUE, <<"A">>)

\* The vendors sequence a document holds (none when absent or unparseable).
StoredVendors(f) == IF f.kind = "doc" THEN f.vendors ELSE <<>>

DocumentAlwaysWellFormed ==
  (nwrites > 0 /\ pc # "save_write") => (file.kind = "doc" /\ file.has)

\* C8: after a response that is not valid JSON the page has ended with a
\* parse error, the save was not reached, all_vendors and the document are
\* what they were when the page started, and the loop goes on.
UnparseableIsNoOp ==
  (cur.got /\ ~cur.text.valid) =>
    /\ cur.outcome = "parse_error"
    /\ ~cur.tried
    /\ all_vendors = cur.v0
    /\ file = cur.f0
    /\ GoesOn

\* C8 witness: an unparseable response with records in memory, a document
\* on disk and a candidate left to process.
UnparseableIsNoOpWitness ==
  /\ pc = "loop"
  /\ cur.got
  /\ ~cur.text.valid
  /\ idx <= Len(map_website.links)
  /\ all_vendors # <<>>
  /\ file.kind = "doc"

\* Neither a top-level array nor a top-level object with a 'vendors' key.
Unaccepted(v) == v.kind # "list" /\ ~(v.kind = "dict" /\ v.has)

\* C9: a response that parses into an unaccepted shape adds nothing to
\* all_vendors, and once the page has ended the loop goes on.
UnacceptedShapeYieldsNothing ==
  (cur.got /\ cur.text.valid /\ Unaccepted(cur.text.value)) =>
    /\ all_vendors = cur.v0
    /\ Emitted(cur.text) = <<>>
    /\ pc \in {"save_open", "save_write"} \/ (PageEnded /\ GoesOn)

\* C9 witness: a number (or null) as the response, with a candidate left.
UnacceptedShapeYieldsNothingWitness ==
  /\ pc = "loop"
  /\ cur.got
  /\ cur.text = Text(JScalar)
  /\ cur.outcome = "type_error"
  /\ idx <= Len(map_website.links)
  /\ all_vendors # <<>>

\* C10: for a top-level array, and for a top-level object whose 'vendors'
\* value is an array, all_vendors is what it was when the page started
\* followed by exactly the elements of that array, in order.
AcceptedShapesAppend ==
  (cur.got /\ cur.text.valid
     /\ (cur.text.value.kind = "list"
           \/ (cur.text.value.kind = "dict" /\ cur.text.value.has
                 /\ cur.text.value.iter))) =>
    /\ all_vendors = cur.v0 \o cur.text.value.items
    /\ Len(all_vendors) = Len(cur.v0) + Len(cur.text.value.items)
    /\ cur.tried

\* C10 witness: {"vendors": [B, A]} (with other keys or not) after one
\* record was already in memory.
AcceptedShapesAppendWitness ==
  /\ PageEnded
  /\ cur.text = Text(JDict(TRUE, TRUE, <<"B", "A">>))
  /\ cur.v0 = <<"A">>
  /\ all_vendors = <<"A", "B", "A">>

\* C11 (as claimed): when the write of the document fails after a page's
\* records were appended, the loop goes on, the records stay in all_vendors,
\* and the document still holds what was persisted before the failed write.
PersistenceFailureContained ==
  (PageEnded /\ cur.outcome \in {"open_error", "write_error"}) =>
    /\ GoesOn
    /\ all_vendors = cur.v0 \o Emitted(cur.text)
    /\ cur.f0.kind = "doc" =>
         (file.kind = "doc" /\ IsPrefix(cur.f0.vendors, file.vendors))

\* find_objective_in_top_pages has loaded the document: all_vendors is the
\* ResultSet of the run.
HasLoaded ==
  \/ pc \in {"loop", "fetch", "model", "save_open", "save_write", "Done"}
  \/ pc = "FailedTimeout" /\ fired.pc = "loop"

\* C12: right after a successful save the document holds exactly
\* all_vendors, the records of pages whose own save failed included; and in
\* a run started from a well-formed or absent document, what is persisted
\* is at every point a prefix of all_vendors.
SaveWritesEverything ==
  /\ (PageEnded /\ cur.outcome = "saved") =>
        (file = Doc(TRUE, all_vendors) /\ last_saved = all_vendors)
  /\ (HasLoaded /\ file0.kind \in {"absent", "doc"}) =>
        /\ IsPrefix(StoredVendors(file), all_vendors)
        /\ IsPrefix(last_saved, all_vendors)

\* C12 witness: the first page's records were appended but its save failed;
\* the second page's save then persisted the records of both.
SaveWritesEverythingWitness ==
  /\ PageEnded
  /\ cur.outcome = "saved"
  /\ Len(attempted) = 2
  /\ failed = {attempted[1]}
  /\ Len(cur.v0) > Len(loaded)
  /\ Len(all_vendors) > Len(cur.v0)
  /\ file = Doc(TRUE, all_vendors)

\* C13: with the document absent or not valid JSON at run start, the
\* ResultSet starts empty, the document stays exactly as it was until this
\* run opens it for writing, and the run is not ended by the load: it goes
\* on to the candidates.
LoadingNeverFails ==
  file0.kind \in {"absent", "corrupt"} =>
    /\ HasLoaded => (loaded = <<>> /\ all_vendors = emitted)
    /\ nwrites = 0 => file = file0
    /\ pc = "Crashed" => map_website = Unset
    /\ (pc \in Terminal /\ map_website.links # <<>> /\ attempted = <<>>) =>
         (pc = "FailedTimeout" /\ TimedOut)

\* C13 witness: the document did not parse, the run reached the first save
\* with a record in memory, and the corrupt content is still on disk.
LoadingNeverFailsWitness ==
  /\ file0 = Corrupt
  /\ file = Corrupt
  /\ pc = "save_open"
  /\ loaded = <<>>
  /\ all_vendors # <<>>

\* The positions inside a started page: its fetch, its model call, its save.
PagePcs == {"fetch", "model", "save_open", "save_write"}

Progress ==
  CASE pc = "input" -> 0
    [] pc = "rank_llm" -> 1
    [] pc = "rank_map" -> 2
    [] pc = "load" -> 3
    [] pc = "loop" -> 5 * idx
    [] pc = "fetch" -> 5 * idx + 1
    [] pc = "model" -> 5 * idx + 2
    [] pc = "save_open" -> 5 * idx + 3
    [] pc = "save_write" -> 5 * idx + 4
    [] OTHER -> 5 * (MaxPages + 2)

AlarmDisarmedOnExit ==
  /\ pc = "input" => (alarm = "armed" /\ map_website = Unset)
  /\ alarm = "armed" => (~TimedOut /\ pc \notin Terminal)
  /\ TimedOut => alarm # "armed"
  /\ pc \in Terminal => (alarm = "off" /\ ~ENABLED timeout_handler)

\* C17 witness: input() raised, the error left main unhandled, and the
\* finally clause had cancelled the alarm.
AlarmDisarmedOnExitWitness ==
  /\ pc = "Crashed"
  /\ alarm = "off"
  /\ ~TimedOut

====
